---- MODULE Spec2Model ----
(***************************************************************************)
(* Model of src/09-VectorStore/gradio_text_Embeddings_VectorStore.py: the  *)
(* cache-addressed vector store (get_db_path, create_or_load_vector_store) *)
(* and the similarity query router (run_analysis_wrapper,                  *)
(* calculate_similarity, search_from_vector_store).                        *)
(*                                                                         *)
(* Texts are sequences of one-character strings.  Scores are integers in   *)
(* units of 1e-5 (100000 is a cosine similarity of 1.0).  The Korean UI    *)
(* literals are written with ASCII stand-ins:                              *)
(*   "sample" = the built-in sample source, "pdf" / "csv" = the two upload *)
(*   sources, "builtin_sample" = the file_name used when no file is given, *)
(*   "lowercase", "strip_symbols", "collapse_spaces" = the three           *)
(*   preprocessing flags, in the order Python's sorted() gives them.       *)
(***************************************************************************)
EXTENDS Integers, Sequences, FiniteSets, TLC

\* ------------------------------------------------------------------ bounds
\* Number of persisted directories the cache directory may hold.
MaxDirs == 1
\* Largest Top-K the slider is moved to (the slider itself goes 1..20).
MaxTopK == 2
\* How many of the model, preprocessing and chunking settings are away from their
\* initial values at a time (the data source and the file are always free).
MaxTweaks == 1
\* Longest input text of a playground session, in characters.
MaxTextLen == 2
\* Most chunks in the output of a playground session.
MaxChunks == 2
\* Longest text shown in the chunk boundary view.
MaxVizLen == 3

\* ------------------------------------------------------------ text helpers
IsSpace(c) == c \in {" ", "\n"}

RECURSIVE FilterChars(_, _)
FilterChars(s, keep) ==
    IF s = <<>> THEN <<>>
    ELSE IF Head(s) \in keep THEN <<Head(s)>> \o FilterChars(Tail(s), keep)
    ELSE FilterChars(Tail(s), keep)

\* str.lower()
Lower(s) == [i \in 1..Len(s) |-> IF s[i] = "A" THEN "a" ELSE s[i]]

RECURSIVE LStrip(_)
LStrip(s) == IF s # <<>> /\ IsSpace(Head(s)) THEN LStrip(Tail(s)) ELSE s

RECURSIVE RStrip(_)
RStrip(s) ==
    IF s # <<>> /\ IsSpace(s[Len(s)]) THEN RStrip(SubSeq(s, 1, Len(s) - 1)) ELSE s

\* str.strip()
Strip(s) == LStrip(RStrip(s))

\* re.sub(r'[^\w\s]', '', text)
RemoveSymbols(s) == FilterChars(s, {"A", "a", "b", "c", " ", "\n"})

\* re.sub(r'\s+', ' ', text)
RECURSIVE CollapseSpaces(_)
CollapseSpaces(s) ==
    IF s = <<>> THEN <<>>
    ELSE IF IsSpace(Head(s)) THEN <<" ">> \o CollapseSpaces(LStrip(s))
    ELSE <<Head(s)>> \o CollapseSpaces(Tail(s))

\* str.split('\n')
RECURSIVE SplitLines(_, _)
SplitLines(s, cur) ==
    IF s = <<>> THEN <<cur>>
    ELSE IF Head(s) = "\n" THEN <<cur>> \o SplitLines(Tail(s), <<>>)
    ELSE SplitLines(Tail(s), Append(cur, Head(s)))

RECURSIVE SeqToSet(_)
SeqToSet(s) == IF s = <<>> THEN {} ELSE {Head(s)} \cup SeqToSet(Tail(s))

\* ------------------------------------------------------------- data sources
\* get_sample_data(): the built-in corpus, three of its sentences.
SampleData ==
    << [category |-> "daily", text |-> <<"A", "!", " ", "b">>],
       [category |-> "it", text |-> <<"a", " ", " ", "c">>],
       [category |-> "science", text |-> <<"c", "!">>] >>

\* Uploaded files: file_obj.name is a temporary path <<directory, stem, extension>>,
\* text is what a PDF's pages yield (each page followed by "\n"), rows are the
\* sentences a CSV's text_kr / text_en columns yield.
\* NoFile is file_obj = None (nothing uploaded, or the upload cleared).
NoFile == [name |-> <<>>, text |-> <<>>, rows |-> <<>>]
FileA1 == [name |-> <<"u1", "a", ".pdf">>,
           text |-> <<"A", "!", "\n", " ", "b", " ", "\n">>, rows |-> <<>>]
FileA2 == [name |-> <<"u2", "a", ".pdf">>, text |-> <<"c", " ", "a", "\n">>, rows |-> <<>>]

SourceTypes == {"sample", "pdf", "csv"}
FileObjs == {NoFile, FileA1, FileA2}

\* os.path.basename(file_obj.name) and os.path.splitext(file_path)[1]
BaseName(f) == <<f.name[2], f.name[3]>>
FileExtension(f) == f.name[3]

\* RecursiveCharacterTextSplitter.split_text on a text that fits one chunk:
\* the text comes back as a single stripped chunk.
SplitText(raw, chunk_size, chunk_overlap) ==
    IF Len(raw) <= chunk_size THEN <<Strip(raw)>> ELSE
    [i \in 1..((Len(raw) + chunk_size - 1) \div chunk_size) |->
        Strip(SubSeq(raw, (i - 1) * chunk_size + 1,
                     IF i * chunk_size < Len(raw) THEN i * chunk_size ELSE Len(raw)))]

RECURSIVE NonBlank(_, _)
NonBlank(parts, cat) ==
    IF parts = <<>> THEN <<>>
    ELSE IF Strip(Head(parts)) # <<>>
         THEN <<[category |-> cat, text |-> Strip(Head(parts))]>> \o NonBlank(Tail(parts), cat)
         ELSE NonBlank(Tail(parts), cat)

\* load_sentences; parse_ok = FALSE is fitz.open / read_csv raising.
load_sentences(source_type, file_obj, use_chunking, chunk_size, chunk_overlap, parse_ok) ==
    IF source_type = "sample" THEN SampleData
    ELSE IF file_obj = NoFile THEN <<>>
    ELSE IF FileExtension(file_obj) = ".pdf" THEN
        IF ~parse_ok THEN <<>>
        ELSE IF use_chunking /\ file_obj.text # <<>> /\ source_type = "pdf"
             THEN NonBlank(SplitText(file_obj.text, chunk_size, chunk_overlap), "PDF-Chunked")
        ELSE IF file_obj.text # <<>>
             THEN NonBlank(SplitLines(file_obj.text, <<>>), "PDF")
        ELSE <<>>
    ELSE IF FileExtension(file_obj) = ".csv" THEN
        IF parse_ok THEN file_obj.rows ELSE <<>>
    ELSE <<>>

\* ------------------------------------------------------------ preprocessing
Flags == <<"lowercase", "strip_symbols", "collapse_spaces">>

preprocess_text(text, options) ==
    LET t1 == IF "lowercase" \in SeqToSet(options) THEN Lower(text) ELSE text
        t2 == IF "strip_symbols" \in SeqToSet(options) THEN RemoveSymbols(t1) ELSE t1
    IN IF "collapse_spaces" \in SeqToSet(options) THEN Strip(CollapseSpaces(t2)) ELSE t2

\* ---------------------------------------------------------------- cache key
\* JSON values are tagged: <<"str", s>>, <<"int", n>>, <<"bool", b>>,
\* <<"list", seq>>, <<"dict", seq of <<key, value>> in insertion order>>.
FlagRank(f) == CHOOSE i \in 1..Len(Flags) : Flags[i] = f

KeyNames == <<"chunking", "distance_metric", "file_name", "model_name",
              "overlap", "preprocess", "size", "use">>
KeyRank(k) == CHOOSE i \in 1..Len(KeyNames) : KeyNames[i] = k

RECURSIVE InsertFlag(_, _)
InsertFlag(f, s) ==
    IF s = <<>> THEN <<f>>
    ELSE IF FlagRank(f) < FlagRank(Head(s)) THEN <<f>> \o s
    ELSE <<Head(s)>> \o InsertFlag(f, Tail(s))

\* (variant: the list serialized in the order given)
sorted_as_given(s) == s

\* sorted(preprocess_options)
RECURSIVE sorted(_)
sorted(s) == IF s = <<>> THEN <<>> ELSE InsertFlag(s[Len(s)], sorted(SubSeq(s, 1, Len(s) - 1)))

RECURSIVE InsertPair(_, _)
InsertPair(p, s) ==
    IF s = <<>> THEN <<p>>
    ELSE IF KeyRank(p[1]) < KeyRank(Head(s)[1]) THEN <<p>> \o s
    ELSE <<Head(s)>> \o InsertPair(p, Tail(s))

\* the items of a dict in sorted key order (sort_keys=True)
RECURSIVE SortKeys(_)
SortKeys(pairs) ==
    IF pairs = <<>> THEN <<>>
    ELSE InsertPair(pairs[Len(pairs)], SortKeys(SubSeq(pairs, 1, Len(pairs) - 1)))

RECURSIVE Join(_)
Join(ss) ==
    IF ss = <<>> THEN <<>>
    ELSE IF Len(ss) = 1 THEN Head(ss)
    ELSE Head(ss) \o <<",">> \o Join(Tail(ss))

\* json.dumps(value, sort_keys=True), as a sequence of tokens
RECURSIVE json_dumps(_)
json_dumps(v) ==
    CASE v[1] = "str" -> <<"\"">> \o v[2] \o <<"\"">>
      [] v[1] = "int" -> <<ToString(v[2])>>
      [] v[1] = "bool" -> <<IF v[2] THEN "true" ELSE "false">>
      [] v[1] = "list" ->
            <<"[">> \o Join([i \in 1..Len(v[2]) |-> json_dumps(v[2][i])]) \o <<"]">>
      [] v[1] = "dict" ->
            LET items == SortKeys(v[2])
            IN <<"{">> \o Join([i \in 1..Len(items) |->
                    <<"\"", items[i][1], "\"", ":">> \o json_dumps(items[i][2])])
               \o <<"}">>

\* hashlib.sha1(...).hexdigest(); the digest is taken to be collision-free, so it
\* is written as the tagged text it digests.
sha1_hexdigest(tokens) == <<"sha1">> \o tokens

get_config_hash(config) == sha1_hexdigest(json_dumps(config))

Str(s) == <<"str", s>>

\* the config dict of get_db_path, in the order its keys are written
db_config(file_name, model_name, preprocess_options, use_chunking, chunk_size, chunk_overlap) ==
    <<"dict", <<
        <<"file_name", Str(file_name)>>,
        <<"model_name", Str(<<model_name>>)>>,
        <<"preprocess", <<"list", [i \in 1..Len(sorted(preprocess_options)) |->
                                      Str(<<sorted(preprocess_options)[i]>>)]>> >>,
        <<"chunking", <<"dict", <<
            <<"use", <<"bool", use_chunking>> >>,
            <<"size", <<"int", chunk_size>> >>,
            <<"overlap", <<"int", chunk_overlap>> >> >> >> >>,
        <<"distance_metric", Str(<<"cosine">>)>> >> >>

get_db_path(file_name, model_name, preprocess_options, use_chunking, chunk_size, chunk_overlap) ==
    get_config_hash(db_config(file_name, model_name, preprocess_options,
                              use_chunking, chunk_size, chunk_overlap))

\* ------------------------------------------------------------- option sets
\* An Option Set is the value of the seven settings components, the inputs of
\* create_or_load_vector_store.
\* os.environ: no OPENAI_API_KEY is configured, so available_models does not
\* offer the OpenAI model.
OPENAI_API_KEY == FALSE

\* available_models
Models == {"HuggingFace", "Ollama"} \cup (IF OPENAI_API_KEY THEN {"OpenAI"} ELSE {})
FlagLists == {<<>>, <<"lowercase", "collapse_spaces">>, <<"collapse_spaces", "lowercase">>}
ChunkSizes == {100, 500}
ChunkOverlaps == {0, 50}

OptionSets ==
    [data_source_radio : SourceTypes, file_uploader : FileObjs, model_selector : Models,
     preprocess_options_checkbox : FlagLists, use_chunking_checkbox : BOOLEAN,
     chunk_size_slider : ChunkSizes, chunk_overlap_slider : ChunkOverlaps]

\* the components' initial values
DefaultOptions ==
    [data_source_radio |-> "sample", file_uploader |-> NoFile,
     model_selector |-> "HuggingFace", preprocess_options_checkbox |-> <<>>,
     use_chunking_checkbox |-> TRUE, chunk_size_slider |-> 500,
     chunk_overlap_slider |-> 50]

Tweaks(o) ==
    Cardinality({c \in {"model_selector", "preprocess_options_checkbox",
                        "use_chunking_checkbox", "chunk_size_slider",
                        "chunk_overlap_slider"} : o[c] # DefaultOptions[c]})

\* the Option Sets explored
ExploredOptions == {o \in OptionSets : Tweaks(o) <= MaxTweaks}

\* file_name and db_path as create_or_load_vector_store derives them
FileNameOf(file_obj) == IF file_obj # NoFile THEN BaseName(file_obj) ELSE <<"builtin_sample">>

DbPathOf(o) ==
    get_db_path(FileNameOf(o.file_uploader), o.model_selector, o.preprocess_options_checkbox,
                o.use_chunking_checkbox, o.chunk_size_slider, o.chunk_overlap_slider)

\* ---------------------------------------------------------------- embedder

\* What the libraries and services behind one handler call do: nothing fails, the
\* embedder's constructor raises, the file parser raises, the Chroma client raises
\* on opening its directory, or the embedding call raises.
Faults == {"none", "embedder_error", "parse_error", "chroma_error", "embedding_error"}

\* get_embedder: "embedder", "None", or "raises" when the constructor raises
get_embedder(model_name, fault) ==
    IF model_name = "HuggingFace"
    THEN IF fault = "embedder_error" THEN "raises" ELSE "embedder"
    ELSE IF model_name = "OpenAI"
    THEN IF ~OPENAI_API_KEY THEN "None"
         ELSE IF fault = "embedder_error" THEN "raises" ELSE "embedder"
    ELSE IF model_name = "Ollama"
    THEN IF fault = "embedder_error" THEN "raises" ELSE "embedder"
    ELSE "None"

\* ------------------------------------------------------------ vector store
\* The cache directory is a function from the db_paths that exist to the
\* documents of the collection persisted there.  A Chroma object is a handle on
\* its persist_directory; NoStore is vector_store = None.
NoStore == [persist_directory |-> <<>>]
Chroma(db_path) == [persist_directory |-> db_path]

\* (variant: the existence check never finds the directory)
path_exists_never(db_path, disk) == FALSE

\* db_path.exists()
path_exists(db_path, disk) == db_path \in DOMAIN disk

Documents(data, preprocess_options) ==
    [i \in 1..Len(data) |->
        [page_content |-> preprocess_text(data[i].text, preprocess_options),
         category |-> data[i].category]]

\* Chroma.from_documents(documents, embedding, persist_directory): the client
\* creates the directory and an empty collection, then the texts are embedded and
\* added.  Returns what is on disk afterwards and whether the call raised.
Chroma_from_documents(documents, db_path, disk, fault) ==
    IF fault = "chroma_error" THEN [raised |-> TRUE, disk |-> disk]
    ELSE IF fault = "embedding_error"
    THEN [raised |-> TRUE, disk |-> (db_path :> <<>>) @@ disk]
    ELSE [raised |-> FALSE, disk |-> (db_path :> documents) @@ disk]

\* (variant: the build goes on when get_embedder returns None)
create_or_load_without_embedder(o, disk, fault) ==
    LET db_path == DbPathOf(o)
        embedder == get_embedder(o.model_selector, fault)
        data == load_sentences(o.data_source_radio, o.file_uploader,
                               o.use_chunking_checkbox, o.chunk_size_slider,
                               o.chunk_overlap_slider, fault # "parse_error")
        built == Chroma_from_documents(Documents(data, o.preprocess_options_checkbox),
                                       db_path, disk, fault)
        Return(vs, status, d) ==
            [raised |-> FALSE, vector_store |-> vs, status |-> status, disk |-> d]
        Raise == [raised |-> TRUE, vector_store |-> NoStore, status |-> "exception",
                  disk |-> disk]
    IN IF o.data_source_radio \in {"pdf", "csv"} /\ o.file_uploader = NoFile
       THEN Return(NoStore, "error_no_file", disk)
       ELSE IF embedder = "raises" THEN Raise
       ELSE IF path_exists(db_path, disk)
       THEN IF fault = "chroma_error" THEN Raise
            ELSE Return(Chroma(db_path), "loaded", disk)
       ELSE IF data = <<>> THEN Return(NoStore, "error_data", disk)
       ELSE IF built.raised THEN Return(NoStore, "error_exception", built.disk)
       ELSE Return(Chroma(db_path), "created", built.disk)

\* (variant: the build goes on when load_sentences returns no data)
create_or_load_without_data_check(o, disk, fault) ==
    LET db_path == DbPathOf(o)
        embedder == get_embedder(o.model_selector, fault)
        data == load_sentences(o.data_source_radio, o.file_uploader,
                               o.use_chunking_checkbox, o.chunk_size_slider,
                               o.chunk_overlap_slider, fault # "parse_error")
        built == Chroma_from_documents(Documents(data, o.preprocess_options_checkbox),
                                       db_path, disk, fault)
        Return(vs, status, d) ==
            [raised |-> FALSE, vector_store |-> vs, status |-> status, disk |-> d]
        Raise == [raised |-> TRUE, vector_store |-> NoStore, status |-> "exception",
                  disk |-> disk]
    IN IF o.data_source_radio \in {"pdf", "csv"} /\ o.file_uploader = NoFile
       THEN Return(NoStore, "error_no_file", disk)
       ELSE IF embedder = "raises" THEN Raise
       ELSE IF embedder = "None" THEN Return(NoStore, "error_embedder", disk)
       ELSE IF path_exists(db_path, disk)
       THEN IF fault = "chroma_error" THEN Raise
            ELSE Return(Chroma(db_path), "loaded", disk)
       ELSE IF built.raised THEN Return(NoStore, "error_exception", built.disk)
       ELSE Return(Chroma(db_path), "created", built.disk)

\* create_or_load_vector_store: raised = an exception leaves the handler;
\* otherwise (vector_store, status) is what it returns.
create_or_load_vector_store(o, disk, fault) ==
    LET db_path == DbPathOf(o)
        embedder == get_embedder(o.model_selector, fault)
        data == load_sentences(o.data_source_radio, o.file_uploader,
                               o.use_chunking_checkbox, o.chunk_size_slider,
                               o.chunk_overlap_slider, fault # "parse_error")
        built == Chroma_from_documents(Documents(data, o.preprocess_options_checkbox),
                                       db_path, disk, fault)
        Return(vs, status, d) ==
            [raised |-> FALSE, vector_store |-> vs, status |-> status, disk |-> d]
        Raise == [raised |-> TRUE, vector_store |-> NoStore, status |-> "exception",
                  disk |-> disk]
    IN IF o.data_source_radio \in {"pdf", "csv"} /\ o.file_uploader = NoFile
       THEN Return(NoStore, "error_no_file", disk)
       ELSE IF embedder = "raises" THEN Raise
       ELSE IF embedder = "None" THEN Return(NoStore, "error_embedder", disk)
       ELSE IF path_exists(db_path, disk)
       THEN IF fault = "chroma_error" THEN Raise
            ELSE Return(Chroma(db_path), "loaded", disk)
       ELSE IF data = <<>> THEN Return(NoStore, "error_data", disk)
       ELSE IF built.raised THEN Return(NoStore, "error_exception", built.disk)
       ELSE Return(Chroma(db_path), "created", built.disk)

\* ------------------------------------------------------------------ ranking
\* sims[i] is the cosine similarity of the query with the i-th document, as the
\* embedding model gives it; tie[i] is where the sort leaves row i among rows of
\* equal score (quicksort and the index's search fix no order among them).
SimOf(sims, i) == sims[((i - 1) % Len(sims)) + 1]

\* '{:.4f}'.format(score): the score rounded to units of 1e-4
Format4(score) == (score + 5) \div 10

\* (variant: no row is filtered out)
ClearsThreshold_always(score, threshold) == TRUE

\* score >= threshold
ClearsThreshold(score, threshold) == score >= threshold

\* the loop of calculate_similarity that collects the rows clearing the threshold;
\* pos is the row's index in the DataFrame
RECURSIVE CollectResults(_, _, _, _, _)
CollectResults(data, sims, threshold, i, acc) ==
    IF i > Len(data) THEN acc
    ELSE IF ClearsThreshold(SimOf(sims, i), threshold)
    THEN CollectResults(data, sims, threshold, i + 1,
            Append(acc, [score |-> SimOf(sims, i), text |-> data[i].text,
                         category |-> data[i].category, pos |-> Len(acc) + 1]))
    ELSE CollectResults(data, sims, threshold, i + 1, acc)

Before(a, b, tie) ==
    a.score > b.score \/ (a.score = b.score /\ tie[a.pos] < tie[b.pos])

RECURSIVE InsertRow(_, _, _)
InsertRow(r, s, tie) ==
    IF s = <<>> THEN <<r>>
    ELSE IF Before(r, Head(s), tie) THEN <<r>> \o s
    ELSE <<Head(s)>> \o InsertRow(r, Tail(s), tie)

\* DataFrame.sort_values(by=score, ascending=False)
RECURSIVE sort_values(_, _)
sort_values(rows, tie) ==
    IF rows = <<>> THEN <<>>
    ELSE InsertRow(Head(rows), sort_values(Tail(rows), tie), tie)

\* (variant: no truncation)
head_all(rows, top_k) == rows

\* DataFrame.head(top_k)
head(rows, top_k) == SubSeq(rows, 1, IF top_k < Len(rows) THEN top_k ELSE Len(rows))

\* df.insert(0, rank, range(1, len(df) + 1)) and the score formatting
RankRows(rows) ==
    [j \in 1..Len(rows) |->
        [rank |-> j, score |-> Format4(rows[j].score), text |-> rows[j].text,
         category |-> rows[j].category]]

\* (df, fig, summary): the rows of df and which summary message; raised = an
\* exception leaves the function
Out(rows, status) == [raised |-> FALSE, rows |-> rows, status |-> status]
Raised == [raised |-> TRUE, rows |-> <<>>, status |-> "exception"]

\* (variant: the rows are truncated before they are sorted)
calculate_similarity_head_first(query, data, model_name, top_k, threshold, preprocess_options, sims, tie, fault) ==
    LET results == CollectResults(data, sims, threshold, 1, <<>>)
    IN IF query = <<>> THEN Out(<<>>, "no_query")
       ELSE IF data = <<>> THEN Out(<<>>, "no_data")
       ELSE IF get_embedder(model_name, fault) # "embedder"
       THEN Out(<<>>, "model_load_failed")
       ELSE IF fault = "embedding_error" THEN Out(<<>>, "embedding_failed")
       ELSE IF results = <<>> THEN Out(<<>>, "below_threshold")
       ELSE Out(RankRows(sort_values(head(results, top_k), tie)), "summary")

calculate_similarity(query, data, model_name, top_k, threshold, preprocess_options, sims, tie, fault) ==
    LET results == CollectResults(data, sims, threshold, 1, <<>>)
    IN IF query = <<>> THEN Out(<<>>, "no_query")
       ELSE IF data = <<>> THEN Out(<<>>, "no_data")
       ELSE IF get_embedder(model_name, fault) # "embedder"
       THEN Out(<<>>, "model_load_failed")
       ELSE IF fault = "embedding_error" THEN Out(<<>>, "embedding_failed")
       ELSE IF results = <<>> THEN Out(<<>>, "below_threshold")
       ELSE Out(RankRows(head(sort_values(results, tie), top_k)), "summary")

\* Chroma.similarity_search_with_score(query, k): the k nearest documents of the
\* collection with their cosine distance, nearest first
similarity_search_with_score(docs, k, sims, tie) ==
    LET all == [i \in 1..Len(docs) |->
                  [score |-> SimOf(sims, i), text |-> docs[i].page_content,
                   category |-> docs[i].category, pos |-> i]]
        nearest == sort_values(all, tie)
    IN [j \in 1..(IF k < Len(docs) THEN k ELSE Len(docs)) |->
          [page_content |-> nearest[j].text, category |-> nearest[j].category,
           distance |-> 100000 - nearest[j].score]]

\* (variant: the index's distance is shown as the score)
search_distance_as_score(query, vector_store, top_k, model_name, preprocess_options, disk, sims, tie, fault) ==
    LET results_with_scores ==
            similarity_search_with_score(disk[vector_store.persist_directory],
                                         top_k, sims, tie)
        results == [j \in 1..Len(results_with_scores) |->
                      [score |-> results_with_scores[j].distance,
                       text |-> results_with_scores[j].page_content,
                       category |-> results_with_scores[j].category]]
    IN IF query = <<>> THEN Out(<<>>, "no_query")
       ELSE IF vector_store = NoStore THEN Out(<<>>, "store_not_ready")
       ELSE IF fault = "embedding_error" THEN Raised
       ELSE IF results_with_scores = <<>> THEN Out(<<>>, "no_similar")
       ELSE Out(RankRows(results), "summary")

search_from_vector_store(query, vector_store, top_k, model_name, preprocess_options, disk, sims, tie, fault) ==
    LET results_with_scores ==
            similarity_search_with_score(disk[vector_store.persist_directory],
                                         top_k, sims, tie)
        results == [j \in 1..Len(results_with_scores) |->
                      [score |-> 100000 - results_with_scores[j].distance,
                       text |-> results_with_scores[j].page_content,
                       category |-> results_with_scores[j].category]]
    IN IF query = <<>> THEN Out(<<>>, "no_query")
       ELSE IF vector_store = NoStore THEN Out(<<>>, "store_not_ready")
       ELSE IF fault = "embedding_error" THEN Raised
       ELSE IF results_with_scores = <<>> THEN Out(<<>>, "no_similar")
       ELSE Out(RankRows(results), "summary")

Backends == {"direct", "chroma", "other"}

\* (variant: an indexed query with no in-session store creates or loads one first)
run_analysis_autocreate(backend, query, vector_store, o, top_k, threshold, disk, sims, tie, fault) ==
    LET made == IF backend = "chroma" /\ vector_store = NoStore
                THEN create_or_load_vector_store(o, disk, fault)
                ELSE [raised |-> FALSE, vector_store |-> vector_store,
                      status |-> "none", disk |-> disk]
        r == IF backend = "chroma" /\ ~made.raised
             THEN search_from_vector_store(query, made.vector_store, top_k,
                      o.model_selector, o.preprocess_options_checkbox, made.disk,
                      sims, tie, fault)
             ELSE Raised
    IN [raised |-> r.raised, rows |-> r.rows, status |-> r.status,
        vector_store |-> made.vector_store, disk |-> made.disk]

\* run_analysis_wrapper returns (df, fig, summary, vector_store); disk is the cache
\* directory as the call leaves it
run_analysis_wrapper(backend, query, vector_store, o, top_k, threshold, disk, sims, tie, fault) ==
    LET data == load_sentences(o.data_source_radio, o.file_uploader,
                               o.use_chunking_checkbox, o.chunk_size_slider,
                               o.chunk_overlap_slider, fault # "parse_error")
        r == IF backend = "direct"
             THEN IF data = <<>> THEN Out(<<>>, "no_data_source")
                  ELSE calculate_similarity(query, data, o.model_selector, top_k,
                            threshold, o.preprocess_options_checkbox, sims, tie, fault)
             ELSE IF backend = "chroma"
             THEN search_from_vector_store(query, vector_store, top_k, o.model_selector,
                            o.preprocess_options_checkbox, disk, sims, tie, fault)
             ELSE Raised
    IN [raised |-> r.raised, rows |-> r.rows, status |-> r.status,
        vector_store |-> vector_store, disk |-> disk]

\* --------------------------------------------- text splitter playground: JSON
\* (src/07-TextSplitter)  A Python value is tagged: None, a str (a sequence of
\* characters), or a list of values.  A file is the sequence of its characters;
\* NoDownload is "no file" (the handler returned None).
NoneV == [t |-> "none", v |-> <<>>]
StrV(s) == [t |-> "str", v |-> s]
ListV(l) == [t |-> "list", v |-> l]
NoDownload == <<>>

\* not x, for a Python value
Falsy(x) == x.v = <<>>

RECURSIVE Concat(_)
Concat(ss) == IF ss = <<>> THEN <<>> ELSE Head(ss) \o Concat(Tail(ss))

\* (variant: the characters are written as they are)
EscapeChar_raw(c) == <<c>>

\* json.dump(..., ensure_ascii=False): a string's characters, escaped
EscapeChar(c) ==
    IF c = "\"" THEN <<"\\", "\"">>
    ELSE IF c = "\\" THEN <<"\\", "\\">>
    ELSE IF c = "\n" THEN <<"\\", "n">>
    ELSE <<c>>

DumpStr(s) == <<"\"">> \o Concat([i \in 1..Len(s) |-> EscapeChar(s[i])]) \o <<"\"">>

\* indent=4: a new line and 4 spaces for each level
Indent(level) == <<"\n">> \o [i \in 1..(4 * level) |-> " "]

RECURSIVE DumpValue(_, _)
DumpValue(x, level) ==
    IF x.t = "none" THEN <<"n", "u", "l", "l">>
    ELSE IF x.t = "str" THEN DumpStr(x.v)
    ELSE IF x.v = <<>> THEN <<"[", "]">>
    ELSE <<"[">>
         \o Concat([i \in 1..Len(x.v) |->
                      Indent(level + 1) \o DumpValue(x.v[i], level + 1)
                      \o (IF i < Len(x.v) THEN <<",">> ELSE <<>>)])
         \o Indent(level) \o <<"]">>

\* json.dump of a dict given as its (key, value) pairs in insertion order
json_dump(pairs) ==
    <<"{">>
    \o Concat([i \in 1..Len(pairs) |->
                 Indent(1) \o DumpStr(pairs[i][1]) \o <<":", " ">>
                 \o DumpValue(pairs[i][2], 1)
                 \o (IF i < Len(pairs) THEN <<",">> ELSE <<>>)])
    \o Indent(0) \o <<"}">>

\* json.load: a parse is [ok, val, next]: whether the text parses from position
\* i, the value, and the position after it
ParseError == [ok |-> FALSE, val |-> NoneV, next |-> 0]
Parsed(val, next) == [ok |-> TRUE, val |-> val, next |-> next]

RECURSIVE SkipWs(_, _)
SkipWs(s, i) ==
    IF i <= Len(s) /\ s[i] \in {" ", "\n"} THEN SkipWs(s, i + 1) ELSE i

\* the characters of a string literal from position i (after the opening quote)
RECURSIVE ScanString(_, _, _)
ScanString(s, i, acc) ==
    IF i > Len(s) \/ s[i] = "\n" THEN ParseError
    ELSE IF s[i] = "\"" THEN Parsed(StrV(acc), i + 1)
    ELSE IF s[i] = "\\"
    THEN IF i + 1 > Len(s) THEN ParseError
         ELSE IF s[i + 1] = "n" THEN ScanString(s, i + 2, Append(acc, "\n"))
         ELSE IF s[i + 1] \in {"\"", "\\"} THEN ScanString(s, i + 2, Append(acc, s[i + 1]))
         ELSE ParseError
    ELSE ScanString(s, i + 1, Append(acc, s[i]))

RECURSIVE ParseValue(_, _)
RECURSIVE ParseItems(_, _, _)
\* the items of a list from position i (after "[" or ","), acc the items so far
ParseItems(s, i, acc) ==
    LET item == ParseValue(s, SkipWs(s, i))
        j == SkipWs(s, item.next)
    IN IF ~item.ok \/ j > Len(s) THEN ParseError
       ELSE IF s[j] = "," THEN ParseItems(s, j + 1, Append(acc, item.val))
       ELSE IF s[j] = "]" THEN Parsed(ListV(Append(acc, item.val)), j + 1)
       ELSE ParseError

ParseValue(s, i) ==
    IF i > Len(s) THEN ParseError
    ELSE IF s[i] = "\"" THEN ScanString(s, i + 1, <<>>)
    ELSE IF s[i] = "n"
    THEN IF i + 3 <= Len(s) /\ SubSeq(s, i, i + 3) = <<"n", "u", "l", "l">>
         THEN Parsed(NoneV, i + 4) ELSE ParseError
    ELSE IF s[i] = "["
    THEN IF SkipWs(s, i + 1) <= Len(s) /\ s[SkipWs(s, i + 1)] = "]"
         THEN Parsed(ListV(<<>>), SkipWs(s, i + 1) + 1)
         ELSE ParseItems(s, i + 1, <<>>)
    ELSE ParseError

\* the (key, value) pairs of an object from position i (after "{" or ",")
RECURSIVE ParsePairs(_, _, _)
ParsePairs(s, i, acc) ==
    LET k == SkipWs(s, i)
        key == IF k <= Len(s) /\ s[k] = "\"" THEN ScanString(s, k + 1, <<>>) ELSE ParseError
        c == SkipWs(s, key.next)
        val == IF key.ok /\ c <= Len(s) /\ s[c] = ":"
               THEN ParseValue(s, SkipWs(s, c + 1)) ELSE ParseError
        j == SkipWs(s, val.next)
    IN IF ~val.ok \/ j > Len(s) THEN ParseError
       ELSE IF s[j] = "," THEN ParsePairs(s, j + 1, Append(acc, <<key.val.v, val.val>>))
       ELSE IF s[j] = "}" /\ SkipWs(s, j + 1) > Len(s)
            THEN [ok |-> TRUE, val |-> Append(acc, <<key.val.v, val.val>>), next |-> j + 1]
       ELSE ParseError

\* json.load of a file holding an object: [ok, val] with val its pairs
json_load(file) ==
    LET i == SkipWs(file, 1)
    IN IF i <= Len(file) /\ file[i] = "{"
       THEN ParsePairs(file, i + 1, <<>>)
       ELSE [ok |-> FALSE, val |-> <<>>, next |-> 0]

\* dict.get(key, default); a later pair of the same key wins
RECURSIVE DictGet(_, _, _)
DictGet(pairs, key, default) ==
    IF pairs = <<>> THEN default
    ELSE IF pairs[Len(pairs)][1] = key THEN pairs[Len(pairs)][2]
    ELSE DictGet(SubSeq(pairs, 1, Len(pairs) - 1), key, default)

KeyInput == <<"i", "n", "p", "u", "t">>
KeyOutput == <<"o", "u", "t", "p", "u", "t">>

\* save_session_json (v3): the file written, or NoDownload
save_session_json(input_text, output_text) ==
    IF input_text = <<>> /\ Falsy(output_text) THEN NoDownload
    ELSE json_dump(<<<<KeyInput, StrV(input_text)>>, <<KeyOutput, output_text>>>>)

\* save_session (v2): an output that is a str is parsed as JSON first;
\* raised = json.loads raised
save_session(input_text, output_text) ==
    LET parsed == ParseValue(output_text.v, SkipWs(output_text.v, 1))
        whole == parsed.ok /\ SkipWs(output_text.v, parsed.next) > Len(output_text.v)
    IN IF input_text = <<>> /\ Falsy(output_text)
       THEN [raised |-> FALSE, file |-> NoDownload]
       ELSE IF output_text.t = "str"
       THEN IF whole
            THEN [raised |-> FALSE,
                  file |-> json_dump(<<<<KeyInput, StrV(input_text)>>,
                                       <<KeyOutput, parsed.val>>>>)]
            ELSE [raised |-> TRUE, file |-> NoDownload]
       ELSE [raised |-> FALSE,
             file |-> json_dump(<<<<KeyInput, StrV(input_text)>>,
                                  <<KeyOutput, output_text>>>>)]

\* load_session (v2 and v3): (input, output) read from the file; raised =
\* json.load raised.  file = NoDownload is file = None.
load_session(file) ==
    LET session_data == json_load(file)
    IN IF file = NoDownload
       THEN [raised |-> FALSE, input |-> StrV(<<>>), output |-> NoneV]
       ELSE IF ~session_data.ok
       THEN [raised |-> TRUE, input |-> StrV(<<>>), output |-> NoneV]
       ELSE [raised |-> FALSE,
             input |-> DictGet(session_data.val, KeyInput, StrV(<<>>)),
             output |-> DictGet(session_data.val, KeyOutput, NoneV)]

\* the playground before any handler has run; saved_input and saved_output
\* record the arguments of the last session save
NoPlayground ==
    [fn |-> "none", raised |-> FALSE, input_text |-> <<>>, output_text |-> NoneV,
     download |-> NoDownload, saved_input |-> <<>>, saved_output |-> NoneV]

\* ------------------------------------------------- text splitter playground
\* (src/07-TextSplitter) split_text, run_all_analysis, create_boundary_viz

\* langchain_core Document: what the header-based splitters return for a section
DocV(s) == [t |-> "doc", v |-> s]

SPLITTER_CHOICES ==
    {"CharacterTextSplitter", "RecursiveCharacterTextSplitter", "TokenTextSplitter",
     "MarkdownHeaderTextSplitter", "HTMLHeaderTextSplitter", "CodeSplitter",
     "RecursiveJsonSplitter"}

\* the splitters whose constructor takes chunk_size and chunk_overlap
SizeBased == {"CharacterTextSplitter", "RecursiveCharacterTextSplitter", "TokenTextSplitter"}
HeaderBased == {"MarkdownHeaderTextSplitter", "HTMLHeaderTextSplitter"}

\* the keys of splitter_map
splitter_map_keys == SPLITTER_CHOICES \ {"CodeSplitter"}

\* the language dropdown with nothing chosen
NoLanguage == ""

\* the two messages split_text returns itself, and the text of the ValueError
\* the size-based constructors raise
MsgNoLanguage == <<"CodeSplitter: choose a language">>
MsgWrongSplitter == <<"wrong splitter selected">>
MsgOverlap == <<"Got a larger chunk overlap than chunk size">>

\* TextSplitter.__init__ raises ValueError when the overlap exceeds the size
TextSplitter_init_raises(chunk_size, chunk_overlap) == chunk_overlap > chunk_size

Raises(message) == [raised |-> TRUE, value |-> StrV(message)]
Returns(value) == [raised |-> FALSE, value |-> value]

\* splitter.split_text(text): the library's answer for the selected splitter is
\* lib.chunks, as strings or, for the header-based splitters, as Documents;
\* lib.fault = "split_error" is the call raising with message lib.message
splitter_split_text(splitter_name, lib) ==
    IF lib.fault = "split_error" THEN Raises(lib.message)
    ELSE Returns(ListV([i \in 1..Len(lib.chunks) |->
                          IF splitter_name \in HeaderBased THEN DocV(lib.chunks[i])
                          ELSE StrV(lib.chunks[i])]))

\* the body of the try block of split_text; lib.fault = "constructor_error" is
\* a constructor raising for a reason of its own (a missing tokenizer package)
split_text_try(text, splitter_name, chunk_size, chunk_overlap, language, lib) ==
    IF splitter_name = "CodeSplitter"
    THEN IF language # NoLanguage
         THEN IF TextSplitter_init_raises(chunk_size, chunk_overlap) THEN Raises(MsgOverlap)
              ELSE IF lib.fault = "constructor_error" THEN Raises(lib.message)
              ELSE splitter_split_text(splitter_name, lib)
         ELSE Returns(StrV(MsgNoLanguage))
    ELSE \* splitter_map is built whole: every constructor runs, whatever is selected
         IF TextSplitter_init_raises(chunk_size, chunk_overlap) THEN Raises(MsgOverlap)
         ELSE IF lib.fault = "constructor_error" THEN Raises(lib.message)
         ELSE IF splitter_name \notin splitter_map_keys THEN Returns(StrV(MsgWrongSplitter))
         ELSE splitter_split_text(splitter_name, lib)

\* (variant: no except clause, the exception leaves split_text)
split_text_no_except(text, splitter_name, chunk_size, chunk_overlap, language, lib) ==
    split_text_try(text, splitter_name, chunk_size, chunk_overlap, language, lib)

\* split_text: except Exception as e: return str(e)
split_text(text, splitter_name, chunk_size, chunk_overlap, language, lib) ==
    LET r == split_text_try(text, splitter_name, chunk_size, chunk_overlap, language, lib)
    IN IF r.raised THEN Returns(r.value) ELSE r

\* text[a:b]
Slice(text, a, b) == SubSeq(text, a + 1, b)

NotFound == -1

\* (variant: the search starts at the beginning of the text each time)
index_from_start(text, chunk, start) ==
    LET hits == {i \in 0..(Len(text) - Len(chunk)) : Slice(text, i, i + Len(chunk)) = chunk}
    IN IF hits = {} THEN NotFound ELSE CHOOSE i \in hits : \A j \in hits : i <= j

\* text.index(chunk, start), NotFound standing for its ValueError
index(text, chunk, start) ==
    LET hits == {i \in start..(Len(text) - Len(chunk)) : Slice(text, i, i + Len(chunk)) = chunk}
    IN IF hits = {} THEN NotFound ELSE CHOOSE i \in hits : \A j \in hits : i <= j

\* the segments of gr.HighlightedText: (text, label)
NoLabel == <<"None">>
ChunkLabel(i) == <<"Chunk", i>>
ErrorLabel == <<"Error">>
Segment(s, label) == [text |-> s, label |-> label]
NotFoundMarker(i) == <<" [CHUNK ", i, " NOT FOUND IN ORIGINAL TEXT] ">>

\* the for loop of create_boundary_viz from chunk i on (i counts from 1);
\* positions[i] is last_index after chunk i
RECURSIVE boundary_loop(_, _, _, _, _, _)
boundary_loop(text, chunks, i, last_index, viz_data, positions) ==
    IF i > Len(chunks)
    THEN [raised |-> FALSE, viz_data |-> viz_data, last_index |-> last_index,
          positions |-> positions]
    ELSE IF chunks[i].t # "str"
    THEN \* str.index of a value that is no string: TypeError, not caught
         [raised |-> TRUE, viz_data |-> viz_data, last_index |-> last_index,
          positions |-> positions]
    ELSE LET chunk == chunks[i].v
             start_index == index(text, chunk, last_index)
         IN IF start_index = NotFound
            THEN boundary_loop(text, chunks, i + 1, last_index,
                     viz_data \o <<Segment(NotFoundMarker(i), ErrorLabel),
                                   Segment(chunk, ChunkLabel(i))>>,
                     Append(positions, last_index))
            ELSE boundary_loop(text, chunks, i + 1, start_index + Len(chunk),
                     viz_data
                       \o (IF start_index > last_index
                           THEN <<Segment(Slice(text, last_index, start_index), NoLabel)>>
                           ELSE <<>>)
                       \o <<Segment(chunk, ChunkLabel(i))>>,
                     Append(positions, start_index + Len(chunk)))

create_boundary_viz(text, chunks) ==
    LET r == boundary_loop(text, chunks, 1, 0, <<>>, <<>>)
    IN IF r.raised THEN r
       ELSE [r EXCEPT !.viz_data =
                IF r.last_index < Len(text)
                THEN r.viz_data \o <<Segment(Slice(text, r.last_index, Len(text)), NoLabel)>>
                ELSE r.viz_data]

\* create_length_plot: the rows (Chunk i, len(chunk))
create_length_plot(chunks) == [i \in 1..Len(chunks) |-> <<ChunkLabel(i), Len(chunks[i].v)>>]

\* the outputs of split_button.click (v2) with nothing computed
NoAnalysis ==
    [raised |-> FALSE, output_json |-> NoneV, output_boundary_viz |-> <<>>,
     output_length_plot |-> <<>>, output_tokenizer |-> NoneV, tokenizer_tab |-> FALSE,
     positions |-> <<>>]

\* explore_tokens(text): the tokenizer's report on the text
explore_tokens(text) == StrV(<<"token report">> \o text)

run_all_analysis(text, splitter_name, chunk_size, chunk_overlap, language, lib) ==
    LET chunks == split_text(text, splitter_name, chunk_size, chunk_overlap, language, lib)
        boundary_viz == create_boundary_viz(text, chunks.value.v)
        is_tokenizer_selected == splitter_name = "TokenTextSplitter"
    IN IF chunks.raised THEN [NoAnalysis EXCEPT !.raised = TRUE]
       ELSE IF chunks.value.t # "list"
       THEN [NoAnalysis EXCEPT !.output_json = chunks.value]
       ELSE IF boundary_viz.raised THEN [NoAnalysis EXCEPT !.raised = TRUE]
       ELSE [raised |-> FALSE, output_json |-> chunks.value,
             output_boundary_viz |-> boundary_viz.viz_data,
             output_length_plot |-> create_length_plot(chunks.value.v),
             output_tokenizer |-> IF is_tokenizer_selected THEN explore_tokens(text) ELSE StrV(<<>>),
             tokenizer_tab |-> is_tokenizer_selected,
             positions |-> boundary_viz.positions]

\* ------------------------------------------------------------------- state
VARIABLES
    settings,            \* the seven settings components (an Option Set)
    top_k_slider,        \* the Top-K slider
    threshold_slider,    \* the threshold slider, in units of 1e-5
    vector_store_state,  \* gr.State: the in-session Chroma object or NoStore
    cache,               \* the directories under CACHE_DIR and their collections
    ret,                 \* the last handler call: which handler, and what it returned
    sim,                 \* the embedding model: similarity of the query with document i
    tie,                 \* the sort's order among equal scores
    optA, optB,          \* two Option Sets whose cache keys are derived
    derived,             \* the keys derived from optA and optB
    playground           \* the text splitter playground's components

vars == <<settings, top_k_slider, threshold_slider, vector_store_state, cache, ret,
          sim, tie, optA, optB, derived, playground>>

\* the variables of the vector store demo
demoVars == <<settings, top_k_slider, threshold_slider, vector_store_state, cache, ret,
              sim, tie, optA, optB, derived>>

MaxCorpus == Len(SampleData)
Sims == {19996, 50000, 95000}
Thresholds == {20000, 90000}
Queries == {<<>>, <<"a", " ", "b">>}
TieOrders == {t \in [1..MaxCorpus -> 1..MaxCorpus] : \A i, j \in 1..MaxCorpus : t[i] = t[j] => i = j}

NoRet == [fn |-> "none", backend |-> "none", raised |-> FALSE, status |-> "none",
          rows |-> <<>>]
NotDerived == [done |-> FALSE, a |-> <<>>, b |-> <<>>, reordered |-> {}]

SessionInit ==
    /\ settings = DefaultOptions
    /\ vector_store_state = NoStore
    /\ cache = <<>>
    /\ ret = NoRet

Init ==
    /\ SessionInit
    /\ top_k_slider = 2
    /\ threshold_slider = 20000
    /\ sim = <<95000, 50000, 19996>>
    /\ tie = <<1, 2, 3>>
    /\ optA = DefaultOptions /\ optB = DefaultOptions /\ derived = NotDerived
    /\ playground = NoPlayground

SettingNames == {"data_source_radio", "file_uploader", "model_selector",
                 "preprocess_options_checkbox", "use_chunking_checkbox",
                 "chunk_size_slider", "chunk_overlap_slider"}

SettingChoices(c) ==
    CASE c = "data_source_radio" -> SourceTypes
      [] c = "file_uploader" -> FileObjs
      [] c = "model_selector" -> Models
      [] c = "preprocess_options_checkbox" -> FlagLists
      [] c = "use_chunking_checkbox" -> BOOLEAN
      [] c = "chunk_size_slider" -> ChunkSizes
      [] c = "chunk_overlap_slider" -> ChunkOverlaps

\* (variant: a settings change keeps the in-session store)
on_setting_change_keeps_store ==
    [vector_store |-> vector_store_state, status |-> "settings_changed"]

\* on_setting_change, bound to the change event of each settings component
on_setting_change == [vector_store |-> NoStore, status |-> "settings_changed"]

OnSettingChange ==
    \E c \in SettingNames : \E v \in SettingChoices(c) \ {settings[c]} :
        /\ [settings EXCEPT ![c] = v] \in ExploredOptions
        /\ settings' = [settings EXCEPT ![c] = v]
        /\ vector_store_state' = on_setting_change.vector_store
        /\ ret' = [fn |-> "on_setting_change", backend |-> "none", raised |-> FALSE,
                   status |-> on_setting_change.status, rows |-> <<>>]
        /\ UNCHANGED <<top_k_slider, threshold_slider, cache, sim, tie, optA, optB, derived,
                       playground>>

\* create_vs_button.click
CreateOrLoad ==
    \E fault \in Faults :
        LET r == create_or_load_vector_store(settings, cache, fault)
        IN /\ Cardinality(DOMAIN r.disk) <= MaxDirs
           /\ cache' = r.disk
           /\ vector_store_state' = IF r.raised THEN vector_store_state ELSE r.vector_store
           /\ ret' = [fn |-> "create_or_load_vector_store", backend |-> "none",
                      raised |-> r.raised, status |-> r.status, rows |-> <<>>]
           /\ UNCHANGED <<settings, top_k_slider, threshold_slider, sim, tie,
                          optA, optB, derived, playground>>

\* run_button.click; a query opens no Chroma client, so none fails on opening
RunAnalysis ==
    \E backend \in Backends, query \in Queries, fault \in Faults \ {"chroma_error"} :
        LET r == run_analysis_wrapper(backend, query, vector_store_state, settings,
                                      top_k_slider, threshold_slider, cache, sim, tie, fault)
        IN /\ cache' = r.disk
           /\ vector_store_state' = IF r.raised THEN vector_store_state ELSE r.vector_store
           /\ ret' = [fn |-> "run_analysis_wrapper", backend |-> backend,
                      raised |-> r.raised, status |-> r.status, rows |-> r.rows]
           /\ UNCHANGED <<settings, top_k_slider, threshold_slider, sim, tie,
                          optA, optB, derived, playground>>

Next == OnSettingChange \/ CreateOrLoad \/ RunAnalysis

Spec == Init /\ [][Next]_vars

\* ------------------------------------------------- the ranking on all scores
\* The session on the initial settings, for every Top-K, threshold, similarity of
\* the query with each document and order among equal scores.
InitRank ==
    /\ SessionInit
    /\ top_k_slider \in 1..MaxTopK
    /\ threshold_slider \in Thresholds
    /\ sim \in [1..MaxCorpus -> Sims]
    /\ tie \in TieOrders
    /\ optA = DefaultOptions /\ optB = DefaultOptions /\ derived = NotDerived
    /\ playground = NoPlayground

NextRank == CreateOrLoad \/ RunAnalysis

SpecRank == InitRank /\ [][NextRank]_vars

\* ------------------------------------------- the handlers on any model name
\* The handlers called with any model name get_embedder tells apart (the model
\* dropdown offers available_models only), on an empty cache directory or on one
\* where an earlier run of the process persisted an index under the settings' key.
ModelNames == {"HuggingFace", "Ollama", "OpenAI", "unknown"}

\* further files a call can be handed: a PDF whose pages hold no text, a file of
\* an extension load_sentences does not read, and a CSV with one sentence
BlankPdf == [name |-> <<"u3", "b", ".pdf">>, text |-> <<" ", "\n", "\n">>, rows |-> <<>>]
NotesTxt == [name |-> <<"u4", "c", ".txt">>, text |-> <<"a", "\n">>, rows |-> <<>>]
RowsCsv == [name |-> <<"u5", "d", ".csv">>, text |-> <<>>,
            rows |-> <<[category |-> "CSV", text |-> <<"a", " ", "b">>]>>]
CallFiles == FileObjs \cup {BlankPdf, NotesTxt, RowsCsv}

CallOptions ==
    {[DefaultOptions EXCEPT !.data_source_radio = t, !.file_uploader = f,
                            !.model_selector = m] :
        t \in SourceTypes, f \in CallFiles, m \in ModelNames}

InitCall ==
    /\ settings \in CallOptions
    /\ vector_store_state = NoStore
    /\ cache \in {<<>>} \cup
                 {DbPathOf(settings) :>
                     Documents(SampleData, settings.preprocess_options_checkbox)}
    /\ ret = NoRet
    /\ top_k_slider = MaxTopK /\ threshold_slider = 20000
    /\ sim = <<95000, 50000, 19996>> /\ tie = <<1, 2, 3>>
    /\ optA = DefaultOptions /\ optB = DefaultOptions /\ derived = NotDerived
    /\ playground = NoPlayground

NextCall == CreateOrLoad \/ RunAnalysis

SpecCall == InitCall /\ [][NextCall]_vars

\* ------------------------------------------------ the cache key on two inputs
\* create_or_load_vector_store derives a key once the file check has passed.
Keyed(o) == ~(o.data_source_radio \in {"pdf", "csv"} /\ o.file_uploader = NoFile)

ConfigOf(o) ==
    db_config(FileNameOf(o.file_uploader), o.model_selector, o.preprocess_options_checkbox,
              o.use_chunking_checkbox, o.chunk_size_slider, o.chunk_overlap_slider)

\* the rotations and reflections of 1..n
DictOrders(n) ==
    {[i \in 1..n |-> ((i - 1 + k) % n) + 1] : k \in 0..(n - 1)}
    \cup {[i \in 1..n |-> ((n - i + k) % n) + 1] : k \in 0..(n - 1)}

\* the same dict written with its keys, and the keys of its chunking dict, in
\* another insertion order
Reordered(config, p, q) ==
    LET inner(v) == IF v[1] = "dict" THEN <<"dict", [i \in 1..Len(v[2]) |-> v[2][q[i]]]>>
                    ELSE v
    IN <<"dict", [i \in 1..Len(config[2]) |->
                    <<config[2][p[i]][1], inner(config[2][p[i]][2])>>]>>

InitKey ==
    /\ SessionInit
    /\ top_k_slider = 2
    /\ threshold_slider = 20000
    /\ sim = <<95000, 50000, 19996>>
    /\ tie = <<1, 2, 3>>
    /\ optA \in {o \in ExploredOptions : Keyed(o)}
    /\ optB \in {o \in ExploredOptions : Keyed(o)}
    /\ derived = NotDerived
    /\ playground = NoPlayground

DeriveKeys ==
    /\ ~derived.done
    /\ derived' = [done |-> TRUE, a |-> DbPathOf(optA), b |-> DbPathOf(optB),
                   reordered |-> {get_config_hash(Reordered(ConfigOf(optA), p, q)) :
                                     p \in DictOrders(5), q \in DictOrders(3)}]
    /\ UNCHANGED <<settings, top_k_slider, threshold_slider, vector_store_state, cache,
                   ret, sim, tie, optA, optB, playground>>

SpecKey == InitKey /\ [][DeriveKeys]_vars

\* ------------------------------------------- playground: session save / load
\* Bounds on the texts and chunk lists a session holds.
\* The characters are a letter and the ones JSON escapes or gives a meaning to.
SessionChars == {"a", "\"", "\\", "\n", ","}
SessionTexts == UNION {[1..k -> SessionChars] : k \in 0..MaxTextLen}
ChunkChoices == {<<"a">>, <<"\"", ",">>, <<"\\", "\n">>}
SessionOutputs ==
    {NoneV} \cup {ListV([i \in 1..Len(l) |-> StrV(l[i])]) :
                     l \in UNION {[1..k -> ChunkChoices] : k \in 0..MaxChunks}}

\* the vector store demo, not running
DemoIdle ==
    /\ SessionInit
    /\ top_k_slider = 2 /\ threshold_slider = 20000
    /\ sim = <<95000, 50000, 19996>> /\ tie = <<1, 2, 3>>
    /\ optA = DefaultOptions /\ optB = DefaultOptions /\ derived = NotDerived

\* a session with some input text and output chunks on screen
InitSession ==
    /\ DemoIdle
    /\ \E text \in SessionTexts, out \in SessionOutputs :
          playground = [NoPlayground EXCEPT !.input_text = text, !.output_text = out]

\* save_json_button.click (v3)
SaveSessionJson ==
    /\ playground' = [playground EXCEPT
            !.fn = "save_session_json", !.raised = FALSE,
            !.download = save_session_json(playground.input_text, playground.output_text),
            !.saved_input = playground.input_text,
            !.saved_output = playground.output_text]
    /\ UNCHANGED demoVars

\* session_save.click (v2)
SaveSession ==
    LET r == save_session(playground.input_text, playground.output_text)
    IN /\ playground' = [playground EXCEPT
               !.fn = "save_session", !.raised = r.raised,
               !.download = IF r.raised THEN playground.download ELSE r.file,
               !.saved_input = playground.input_text,
               !.saved_output = playground.output_text]
       /\ UNCHANGED demoVars

\* session_load.upload, of the file last downloaded
LoadSession ==
    LET r == load_session(playground.download)
    IN /\ playground.download # NoDownload
       /\ playground' = [playground EXCEPT
               !.fn = "load_session", !.raised = r.raised,
               !.input_text = IF r.raised THEN playground.input_text ELSE r.input.v,
               !.output_text = IF r.raised THEN playground.output_text ELSE r.output]
       /\ UNCHANGED demoVars

\* the user empties the input box and a split of the empty text shows no chunks
ClearSession ==
    /\ playground.input_text # <<>> \/ ~Falsy(playground.output_text)
    /\ playground' = [playground EXCEPT !.fn = "clear", !.raised = FALSE,
                                         !.input_text = <<>>, !.output_text = ListV(<<>>)]
    /\ UNCHANGED demoVars

NextSession == SaveSessionJson \/ SaveSession \/ LoadSession \/ ClearSession

SpecSession == InitSession /\ [][NextSession]_vars

\* ------------------------------------------------- playground: split button
\* The components of the text splitter playground and the two split buttons:
\* v2's runs run_all_analysis, v3's runs split_text and shows its result.

LibFaults == {"none", "constructor_error", "split_error"}
LibMessages == {<<>>, <<"library error">>}
LibChunkChoices == {<<"a">>, <<"b">>}
LibChunks == UNION {[1..k -> LibChunkChoices] : k \in 0..MaxChunks}
NoLib == [fault |-> "none", message |-> <<>>, chunks |-> <<>>]

\* what the libraries do in one call
Libs ==
    {[NoLib EXCEPT !.chunks = l] : l \in LibChunks}
        \cup {[NoLib EXCEPT !.fault = f, !.message = m] :
                 f \in LibFaults \ {"none"}, m \in LibMessages}

SplitTexts == {<<>>, <<"a", "b">>}
SplitterNames == SPLITTER_CHOICES \cup {"unknown"}
\* slider positions (steps of 10), among them an overlap above the size
SplitSizes == {10, 20}
SplitOverlaps == {0, 20}
Languages == {NoLanguage, "python"}

NoSplit ==
    [fn |-> "none", input_text |-> <<>>, splitter_name |-> "RecursiveCharacterTextSplitter",
     chunk_size |-> 20, chunk_overlap |-> 0, language |-> NoLanguage,
     lib |-> NoLib, result |-> Returns(NoneV), out |-> NoAnalysis]

InitSplit ==
    /\ DemoIdle
    /\ \E text \in SplitTexts, name \in SplitterNames, lang \in Languages :
          playground = [NoSplit EXCEPT !.input_text = text, !.splitter_name = name,
                                       !.language = lang]

\* chunk_size / chunk_overlap sliders: no handler is attached to them
MoveSliders ==
    /\ \E cs \in SplitSizes, co \in SplitOverlaps :
          /\ <<cs, co>> # <<playground.chunk_size, playground.chunk_overlap>>
          /\ playground' = [playground EXCEPT !.fn = "sliders", !.chunk_size = cs,
                                               !.chunk_overlap = co]
    /\ UNCHANGED demoVars

\* split_button.click (v3): outputs=[output_text]
SplitButtonV3 ==
    /\ \E lib \in Libs :
          LET r == split_text(playground.input_text, playground.splitter_name,
                              playground.chunk_size, playground.chunk_overlap,
                              playground.language, lib)
          IN playground' = [playground EXCEPT
                 !.fn = "split_text", !.lib = lib, !.result = r,
                 !.out = IF r.raised THEN [playground.out EXCEPT !.raised = TRUE]
                         ELSE [playground.out EXCEPT !.raised = FALSE,
                                                     !.output_json = r.value]]
    /\ UNCHANGED demoVars

\* split_button.click (v2): run_all_analysis and its five outputs; when the
\* handler raises the components keep what they show
SplitButtonV2 ==
    /\ \E lib \in Libs :
          LET r == split_text(playground.input_text, playground.splitter_name,
                              playground.chunk_size, playground.chunk_overlap,
                              playground.language, lib)
              a == run_all_analysis(playground.input_text, playground.splitter_name,
                                    playground.chunk_size, playground.chunk_overlap,
                                    playground.language, lib)
          IN playground' = [playground EXCEPT
                 !.fn = "run_all_analysis", !.lib = lib, !.result = r,
                 !.out = IF a.raised THEN [playground.out EXCEPT !.raised = TRUE] ELSE a]
    /\ UNCHANGED demoVars

NextSplit == MoveSliders \/ SplitButtonV3 \/ SplitButtonV2

SpecSplit == InitSplit /\ [][NextSplit]_vars

\* ---------------------------------------------- playground: boundary view
\* create_boundary_viz applied to a text and a list of chunks

VizChars == {"a", "b"}
VizTexts == UNION {[1..k -> VizChars] : k \in 0..MaxVizLen}
VizChunkChoices == UNION {[1..k -> VizChars] : k \in 0..MaxTextLen}
VizChunks == UNION {[1..k -> VizChunkChoices] : k \in 0..MaxChunks}

NoViz == [fn |-> "none", text |-> <<>>, chunks |-> <<>>, viz |-> NoAnalysis]

InitViz ==
    /\ DemoIdle
    /\ \E text \in VizTexts, l \in VizChunks :
          playground = [NoViz EXCEPT !.text = text, !.chunks = l]

CreateBoundaryViz ==
    /\ LET chunks == [i \in 1..Len(playground.chunks) |-> StrV(playground.chunks[i])]
           r == create_boundary_viz(playground.text, chunks)
       IN playground' = [playground EXCEPT
              !.fn = "create_boundary_viz",
              !.viz = [NoAnalysis EXCEPT !.raised = r.raised,
                                         !.output_boundary_viz = r.viz_data,
                                         !.positions = r.positions]]
    /\ UNCHANGED demoVars

NextViz == CreateBoundaryViz

SpecViz == InitViz /\ [][NextViz]_vars

\* ------------------------------------------------------------------ claims
CreateFn == "create_or_load_vector_store"
RunFn == "run_analysis_wrapper"

\* C1: after a build that failed mid-way (status error) the next
\* create_or_load_vector_store call with the same settings does not report 'loaded'.
C1_FailedBuildNotLoaded ==
    [][(ret.fn = CreateFn /\ ret.status = "error_exception" /\ ret'.fn = CreateFn)
         => ret'.status # "loaded"]_vars

\* C2: a call that reports 'created' has persisted the documents of the current
\* settings under their key, and the next call with the same settings that
\* returns reports 'loaded' and returns the same store over the same documents.
C2_CreatedThenLoaded ==
    [][/\ (ret.fn = CreateFn /\ ret.status = "created")
            => /\ vector_store_state = Chroma(DbPathOf(settings))
               /\ DbPathOf(settings) \in DOMAIN cache
               /\ cache[DbPathOf(settings)] =
                    Documents(load_sentences(settings.data_source_radio,
                                  settings.file_uploader, settings.use_chunking_checkbox,
                                  settings.chunk_size_slider,
                                  settings.chunk_overlap_slider, TRUE),
                              settings.preprocess_options_checkbox)
       /\ (ret.fn = CreateFn /\ ret.status = "created" /\ ret'.fn = CreateFn
             /\ ~ret'.raised)
            => /\ ret'.status = "loaded"
               /\ vector_store_state' = vector_store_state
               /\ cache' = cache]_vars

C2_Witness ==
    /\ ret.fn = CreateFn /\ ret.status = "loaded"
    /\ vector_store_state = Chroma(DbPathOf(settings))
    /\ cache[DbPathOf(settings)] # <<>>

\* The data source's identity: the built-in sample, or the source type with the
\* uploaded file (a file left in the uploader is no part of the sample source).
SourceIdentity(o) ==
    IF o.data_source_radio = "sample" THEN <<"sample", NoFile>>
    ELSE <<o.data_source_radio, o.file_uploader>>

\* Two Option Sets differ in a value: the flags count as a set.
DiffersInValue(a, b) ==
    \/ SourceIdentity(a) # SourceIdentity(b)
    \/ a.model_selector # b.model_selector
    \/ SeqToSet(a.preprocess_options_checkbox) # SeqToSet(b.preprocess_options_checkbox)
    \/ a.use_chunking_checkbox # b.use_chunking_checkbox
    \/ a.chunk_size_slider # b.chunk_size_slider
    \/ a.chunk_overlap_slider # b.chunk_overlap_slider

\* C3: two Option Sets that differ in at least one value get different cache keys.
C3_DifferentOptionsDifferentKeys ==
    (derived.done /\ DiffersInValue(optA, optB)) => derived.a # derived.b

\* Two Option Sets equal except for the order of the preprocessing flags.
SameUpToFlagOrder(a, b) ==
    /\ [a EXCEPT !.preprocess_options_checkbox = <<>>]
         = [b EXCEPT !.preprocess_options_checkbox = <<>>]
    /\ Len(a.preprocess_options_checkbox) = Len(b.preprocess_options_checkbox)
    /\ SeqToSet(a.preprocess_options_checkbox) = SeqToSet(b.preprocess_options_checkbox)

\* C4: Option Sets equal except for the order of the preprocessing flags get the
\* same cache key, and so does the same config dict written in another key order.
C4_FlagOrderSameKey ==
    derived.done =>
        /\ SameUpToFlagOrder(optA, optB) => derived.a = derived.b
        /\ derived.reordered = {derived.a}

C4_Witness ==
    /\ derived.done
    /\ SameUpToFlagOrder(optA, optB)
    /\ optA.preprocess_options_checkbox # optB.preprocess_options_checkbox
    /\ derived.a = derived.b

\* C5: a persisted key keeps its contents for ever, and a key comes to exist only
\* by a build of that key that succeeds (absent -> building -> ready); a build
\* that fails leaves the key absent.
C5_LifecycleEdges ==
    [][/\ \A k \in DOMAIN cache : k \in DOMAIN cache' /\ cache'[k] = cache[k]
       /\ \A k \in DOMAIN cache' \ DOMAIN cache :
             /\ ret'.fn = CreateFn /\ ret'.status = "created"
             /\ k = DbPathOf(settings)]_vars

\* C6: a query leaves the cache directory as it found it.
C6_QueryReadOnly ==
    [][ret'.fn = RunFn => cache' = cache]_vars

C6_Witness ==
    /\ ret.fn = RunFn /\ ret.backend = "chroma" /\ ret.status = "summary"
    /\ vector_store_state # NoStore
    /\ cache[vector_store_state.persist_directory] # <<>>

\* C7: no handler call ends with an exception leaving the handler.
C7_NoExceptionEscapes == ~ret.raised

\* the corpus a direct query ranks, and the documents clearing the threshold
DirectData ==
    load_sentences(settings.data_source_radio, settings.file_uploader,
                   settings.use_chunking_checkbox, settings.chunk_size_slider,
                   settings.chunk_overlap_slider, TRUE)
Passing == {i \in 1..Len(DirectData) : SimOf(sim, i) >= threshold_slider}

\* C8: a query never returns more than Top-K rows.
C8_AtMostTopK == ret.fn = RunFn => Len(ret.rows) <= top_k_slider

C8_Witness ==
    /\ ret.fn = RunFn /\ ret.backend = "direct"
    /\ Cardinality(Passing) > top_k_slider
    /\ Len(ret.rows) = top_k_slider

\* C9: every row of a direct query has a score at or above the threshold (the
\* row's score is in units of 1e-4), and when no document clears the threshold
\* the call returns no rows and the summary message, without raising.
C9_DirectRowsClearThreshold ==
    (ret.fn = RunFn /\ ret.backend = "direct") =>
        /\ \A j \in 1..Len(ret.rows) : ret.rows[j].score * 10 >= threshold_slider
        /\ Passing = {} => (~ret.raised /\ ret.rows = <<>> /\ ret.status # "summary")
        /\ ret.status = "below_threshold" => (Passing = {} /\ ret.rows = <<>>)
        /\ ret.status = "summary" => ret.rows # <<>>

C9_Witness ==
    /\ ret.fn = RunFn /\ ret.backend = "direct"
    /\ ret.status = "below_threshold" /\ ret.rows = <<>> /\ ~ret.raised

\* C10: the rows of a direct query are min(Top-K, number clearing) documents that
\* clear the threshold, no document left out scores higher than one returned, the
\* scores do not increase down the table, and the ranks are 1, 2, ..., n.
C10_DirectTopKSorted ==
    (ret.fn = RunFn /\ ret.backend = "direct" /\ ret.status = "summary") =>
        LET n == Len(ret.rows)
        IN /\ n = (IF top_k_slider < Cardinality(Passing) THEN top_k_slider
                   ELSE Cardinality(Passing))
           /\ \A j \in 1..n : ret.rows[j].rank = j
           /\ \A j \in 1..(n - 1) : ret.rows[j].score >= ret.rows[j + 1].score
           /\ \E f \in [1..n -> Passing] :
                 /\ \A i, j \in 1..n : f[i] = f[j] => i = j
                 /\ \A j \in 1..n :
                       /\ ret.rows[j].score = Format4(SimOf(sim, f[j]))
                       /\ ret.rows[j].text = DirectData[f[j]].text
                       /\ ret.rows[j].category = DirectData[f[j]].category
                 /\ \A i \in Passing \ {f[j] : j \in 1..n} :
                       \A j \in 1..n : SimOf(sim, i) <= SimOf(sim, f[j])

C10_Witness ==
    /\ ret.fn = RunFn /\ ret.backend = "direct" /\ ret.status = "summary"
    /\ Cardinality(Passing) > top_k_slider
    /\ \E i, j \in Passing : i < j /\ SimOf(sim, i) < SimOf(sim, j)

\* what the persisted index returns to the last indexed query
Returned ==
    similarity_search_with_score(cache[vector_store_state.persist_directory],
                                 top_k_slider, sim, tie)

\* C11: the rows of an indexed query are the pairs the index returned, in the
\* order returned, each with score 1 - distance (in units of 1e-4) and rank
\* 1, 2, ..., n, and the scores do not increase down the table.
C11_IndexedRowsFromDistances ==
    (ret.fn = RunFn /\ ret.backend = "chroma" /\ ret.status = "summary") =>
        /\ Len(ret.rows) = Len(Returned)
        /\ \A j \in 1..Len(ret.rows) :
              /\ ret.rows[j].rank = j
              /\ ret.rows[j].score = Format4(100000 - Returned[j].distance)
              /\ ret.rows[j].text = Returned[j].page_content
              /\ ret.rows[j].category = Returned[j].category
        /\ \A j \in 1..(Len(ret.rows) - 1) : ret.rows[j].score >= ret.rows[j + 1].score

C11_Witness ==
    /\ ret.fn = RunFn /\ ret.backend = "chroma" /\ ret.status = "summary"
    /\ Len(ret.rows) = 2
    /\ ret.rows[1].score > ret.rows[2].score
    /\ Returned[1].distance > 0

\* an upload-based source is selected and no file is uploaded
NoFileSelected ==
    settings.data_source_radio \in {"pdf", "csv"} /\ settings.file_uploader = NoFile

\* C12: a create/load request with an upload source and no file reports the
\* missing file, creates no directory and leaves the in-session store as it was.
C12_NoFileNoStateChange ==
    [][(NoFileSelected /\ ret'.fn = CreateFn)
         => /\ ret'.status = "error_no_file" /\ ~ret'.raised
            /\ cache' = cache
            /\ vector_store_state' = vector_store_state]_vars

C12_Witness ==
    /\ NoFileSelected
    /\ ret.fn = CreateFn /\ ret.status = "error_no_file"
    /\ cache # <<>>

\* C13: when get_embedder returns None for the selected model, a create/load
\* request that has passed the file check reports the embedder error, returns no
\* store, and leaves the cache directory as it was.
C13_NoEmbedderNoBuild ==
    [][(get_embedder(settings.model_selector, "none") = "None" /\ ret'.fn = CreateFn)
         => /\ ~ret'.raised
            /\ ret'.status = (IF NoFileSelected THEN "error_no_file" ELSE "error_embedder")
            /\ cache' = cache
            /\ vector_store_state' = NoStore]_vars

C13_Witness ==
    /\ get_embedder(settings.model_selector, "none") = "None"
    /\ ret.fn = CreateFn /\ ret.status = "error_embedder"
    /\ settings.data_source_radio = "pdf"
    /\ vector_store_state = NoStore

\* load_sentences returns no data for the current settings even when the file
\* is read without error
EmptyCorpus ==
    load_sentences(settings.data_source_radio, settings.file_uploader,
                   settings.use_chunking_checkbox, settings.chunk_size_slider,
                   settings.chunk_overlap_slider, TRUE) = <<>>

\* C14: on the build path (no directory under the key yet) a request whose data
\* is empty reports the data error, returns no store and persists nothing, so the
\* key is still absent afterwards; a build reports 'created' only on data.
C14_NoDataNoBuild ==
    [][(ret'.fn = CreateFn /\ DbPathOf(settings) \notin DOMAIN cache)
         => /\ ret'.status = "error_data"
                 => /\ cache' = cache
                    /\ DbPathOf(settings) \notin DOMAIN cache'
                    /\ vector_store_state' = NoStore
            /\ (/\ EmptyCorpus /\ ~NoFileSelected /\ ~ret'.raised
                /\ get_embedder(settings.model_selector, "none") = "embedder")
                 => ret'.status = "error_data"
            /\ ret'.status = "created" => ~EmptyCorpus]_vars

C14_Witness ==
    /\ ret.fn = CreateFn /\ ret.status = "error_data"
    /\ settings.data_source_radio = "pdf" /\ settings.file_uploader = BlankPdf
    /\ DbPathOf(settings) \notin DOMAIN cache

\* C15: a session save writes no file exactly when input and output are both
\* empty, and loading the file a save wrote gives back the input text and the
\* output chunks that were saved.
C15_SessionRoundTrip ==
    /\ (playground.fn \in {"save_session_json", "save_session"})
          => /\ ~playground.raised
             /\ (playground.download = NoDownload)
                   <=> (playground.saved_input = <<>> /\ Falsy(playground.saved_output))
             /\ playground.download # NoDownload
                   => /\ ~load_session(playground.download).raised
                      /\ load_session(playground.download).input
                            = StrV(playground.saved_input)
                      /\ load_session(playground.download).output
                            = playground.saved_output
    /\ playground.fn = "load_session"
          => /\ ~playground.raised
             /\ playground.input_text = playground.saved_input
             /\ playground.output_text = playground.saved_output

C15_Witness ==
    /\ playground.fn = "load_session"
    /\ playground.input_text = <<"\"", "\\">>
    /\ playground.output_text = ListV(<<StrV(<<"\\", "\n">>), StrV(<<"\"", ",">>)>>)
    /\ playground.saved_input = playground.input_text

\* the documents a build for the current settings would persist now
CurrentDocuments ==
    Documents(load_sentences(settings.data_source_radio, settings.file_uploader,
                             settings.use_chunking_checkbox, settings.chunk_size_slider,
                             settings.chunk_overlap_slider, TRUE),
              settings.preprocess_options_checkbox)

\* C16: an index reported 'loaded' holds exactly the documents the current
\* settings produce; stated for the claim's own case, an uploaded file and an
\* index that was built completely (an index left empty by a failed build is C1).
C16_UploadNeverReusesOtherSource ==
    (/\ ret.fn = CreateFn /\ ret.status = "loaded"
     /\ settings.data_source_radio \in {"pdf", "csv"}
     /\ cache[vector_store_state.persist_directory] # <<>>)
        => cache[vector_store_state.persist_directory] = CurrentDocuments

\* the in-session store, when there is one, is the store on the directory of the
\* current settings' cache key, and that directory exists
StoreOfCurrentSettings ==
    vector_store_state # NoStore
        => /\ vector_store_state = Chroma(DbPathOf(settings))
           /\ DbPathOf(settings) \in DOMAIN cache

\* C17: in every state the in-session store is None or the store of the current
\* settings' key; a change of any setting resets it to None and a query returns
\* it unchanged.
C17_StoreMatchesSettings ==
    /\ []StoreOfCurrentSettings
    /\ [][/\ ret'.fn = "on_setting_change" => vector_store_state' = NoStore
          /\ ret'.fn = RunFn => vector_store_state' = vector_store_state]_vars

C17_Witness ==
    /\ ret.fn = RunFn /\ ret.backend = "chroma" /\ ret.status = "summary"
    /\ vector_store_state # NoStore
    /\ settings.preprocess_options_checkbox # <<>>
    /\ settings.data_source_radio = "pdf"

\* the inputs of the last split call, as the components hold them
SplitCalled == playground.fn \in {"split_text", "run_all_analysis"}

\* C18: split_text never raises and returns a list of chunks or a message
\* string; an unknown splitter name and CodeSplitter without a language give a
\* message string; run_all_analysis turns a result that is no list into the
\* message with empty visualisations.
C18_SplitTextNeverRaises ==
    SplitCalled =>
        /\ ~playground.result.raised
        /\ playground.result.value.t \in {"list", "str"}
        /\ playground.splitter_name \notin SPLITTER_CHOICES
              => playground.result.value.t = "str"
        /\ (playground.splitter_name = "CodeSplitter" /\ playground.language = NoLanguage)
              => playground.result.value = StrV(MsgNoLanguage)
        /\ (playground.fn = "run_all_analysis" /\ playground.result.value.t # "list")
              => playground.out = [NoAnalysis EXCEPT !.output_json = playground.result.value]

C18_Witness ==
    /\ playground.fn = "run_all_analysis"
    /\ playground.splitter_name = "TokenTextSplitter"
    /\ playground.chunk_overlap > playground.chunk_size
    /\ playground.out.output_json = StrV(MsgOverlap)
    /\ playground.out.output_boundary_viz = <<>>

\* C19: with a header-based splitter selected, the result of split_text is the
\* same for every chunk_size and chunk_overlap, those with the overlap above
\* the size included.
C19_HeaderSplitIgnoresSizes ==
    (SplitCalled /\ playground.splitter_name \in HeaderBased)
        => \A cs \in SplitSizes, co \in SplitOverlaps :
              split_text(playground.input_text, playground.splitter_name, cs, co,
                         playground.language, playground.lib) = playground.result

\* chunk occurs in text at or after position p
OccursFrom(text, chunk, p) ==
    \E i \in p..(Len(text) - Len(chunk)) : Slice(text, i, i + Len(chunk)) = chunk

\* last_index before chunk i is looked for
ScanBefore(i) == IF i = 1 THEN 0 ELSE playground.viz.positions[i - 1]

IsLabelled(segment) == segment.label # NoLabel

\* every chunk is found at or after the end of the chunk before it
AllChunksFound ==
    \A i \in 1..Len(playground.chunks) :
        OccursFrom(playground.text, playground.chunks[i], ScanBefore(i))

\* C20: create_boundary_viz never moves last_index back; a chunk that is not
\* found adds an Error marker and leaves last_index where it was; when every
\* chunk is found, the segments' texts concatenated are the text and the
\* labelled segments are the chunks, each once, labelled Chunk i, in order.
C20_BoundaryVizPartitions ==
    playground.fn = "create_boundary_viz" =>
        LET text == playground.text
            chunks == playground.chunks
            segments == playground.viz.output_boundary_viz
            positions == playground.viz.positions
        IN /\ ~playground.viz.raised
           /\ Len(positions) = Len(chunks)
           /\ \A i \in 1..Len(chunks) :
                 /\ positions[i] >= ScanBefore(i)
                 /\ ~OccursFrom(text, chunks[i], ScanBefore(i))
                       => /\ positions[i] = ScanBefore(i)
                          /\ \E k \in 1..Len(segments) :
                                segments[k] = Segment(NotFoundMarker(i), ErrorLabel)
           /\ AllChunksFound
                 => /\ Concat([k \in 1..Len(segments) |-> segments[k].text]) = text
                    /\ SelectSeq(segments, IsLabelled)
                          = [i \in 1..Len(chunks) |-> Segment(chunks[i], ChunkLabel(i))]

C20_Witness ==
    /\ playground.fn = "create_boundary_viz"
    /\ Len(playground.chunks) = 2 /\ playground.chunks[2] # <<>>
    /\ AllChunksFound
    /\ Len(playground.viz.output_boundary_viz) = 4
    /\ playground.viz.output_boundary_viz[2].label = NoLabel

====
